---- MODULE Spec2Model ----
(***************************************************************************)
(* Model of the Finance-App store and of the handlers that change it:      *)
(* marking recurring payments, recurring income and one-time payments as   *)
(* fulfilled, detect-and-commit, undo, the deferred-deletion and           *)
(* pay-period checks run at application start and by the notification      *)
(* service, and the monthly summary recomputation the handlers trigger.    *)
(*                                                                         *)
(* A date is a record [year, month, day]; the text "YYYY-MM-DD" the code   *)
(* stores is that triple.  SQL NULL / Python None is the record NULL.      *)
(***************************************************************************)
EXTENDS Integers, Sequences, FiniteSets, TLC

---------------------------------------------------------------------------
(* Bounds of the model *)

\* number of calendar months the clock walks through, from StartYear/StartMonth
NumMonths == 2
\* rows ever inserted into payment_history (AUTOINCREMENT ids 1..MaxHistory)
MaxHistory == 2
\* rows ever inserted in the undo-capacity specification
MaxLogHistory == 11
\* the longest pay period, in months, a payment is given
MaxPeriod == 2
\* rows ever inserted into payment_history in the pay-period specification
MaxPeriodHistory == 1
\* years, from StartYear on, the payment dates are calculated for
NumYears == 2
\* rows ever inserted into payment_history in the savings specification
MaxSavingsHistory == 1

\* the day the model starts on: in December, so that the year turns, before a
\* leap-year February
StartDate == [year |-> 2023, month |-> 12, day |-> 15]
StartYear == StartDate.year
StartMonth == StartDate.month
\* the day of each month, besides its last one, on which the model looks
MidDay == StartDate.day

---------------------------------------------------------------------------
(* Calendar *)

NULL == [year |-> 0, month |-> 0, day |-> 0]

IsLeap(y) == (y % 4 = 0 /\ y % 100 # 0) \/ y % 400 = 0

DaysInMonth(y, m) ==
    IF m = 2 THEN (IF IsLeap(y) THEN 29 ELSE 28)
    ELSE IF m \in {4, 6, 9, 11} THEN 30 ELSE 31

MkDate(y, m, d) == [year |-> y, month |-> m, day |-> d]

DateLE(a, b) ==
    \/ a.year < b.year
    \/ a.year = b.year /\ a.month < b.month
    \/ a.year = b.year /\ a.month = b.month /\ a.day <= b.day

\* datetime(y, m, day) and, on ValueError, the last day of that month
ThisMonthDate(y, m, payment_day) ==
    IF payment_day >= 1 /\ payment_day <= DaysInMonth(y, m)
    THEN MkDate(y, m, payment_day)
    ELSE MkDate(y, m, DaysInMonth(y, m))

\* the k-th month after StartYear/StartMonth, as <<year, month>>
MonthAt(k) ==
    LET n == (StartMonth - 1) + k
    IN  <<StartYear + (n \div 12), (n % 12) + 1>>

\* the dates the clock can show
Calendar ==
    UNION { { MkDate(MonthAt(k)[1], MonthAt(k)[2], d) :
                d \in {MidDay, DaysInMonth(MonthAt(k)[1], MonthAt(k)[2])} } :
            k \in 0..(NumMonths - 1) }

---------------------------------------------------------------------------
(* The store *)

VARIABLES
    today,               \* datetime.today().date()
    clock,               \* CURRENT_TIMESTAMP: the seconds that stamped a row so far
    recurring_payments,  \* table recurring_payments: id -> row
    recurring_income,    \* table recurring_income: id -> row
    one_time_payments,   \* table one_time_payments: id -> row
    payment_history,     \* table payment_history: set of rows
    recent_transactions, \* table recent_transactions: set of rows
    next_history_id,     \* AUTOINCREMENT counter of payment_history
    next_transaction_id, \* AUTOINCREMENT counter of recent_transactions
    monthly_summary,     \* table monthly_summary: <<month, year>> -> row
    last_deletion_check, \* app_settings row 'last_deletion_check_month'
    dialog,              \* the open "Detect Payments" question, or closed
    ret,                 \* the handler that ran last and what it reported
    checks,              \* the month of the latest deletion check and its runs in it
    flagged_in,          \* id -> <<year, month>> when delete_next_month was set
    proc                 \* each process inside a deletion check: what it has read

vars == <<today, clock, recurring_payments, recurring_income, one_time_payments,
          payment_history, recent_transactions, next_history_id,
          next_transaction_id, monthly_summary, last_deletion_check, dialog,
          ret, checks, flagged_in, proc>>

store == <<recurring_payments, recurring_income, one_time_payments,
           payment_history, recent_transactions, next_history_id,
           next_transaction_id, monthly_summary, last_deletion_check>>

---------------------------------------------------------------------------
(* Values *)

\* pay_period_months IS NULL
NullPeriod == 0

NoCheck == <<0, 0>>

\* the app_settings value: no row, or a text; a text written by the code is
\* f"{year}-{month:02d}", whose split('-') gives the two numbers back
NoRow == [present |-> FALSE, numeric |-> FALSE, year |-> 0, month |-> 0]
Garbage == [present |-> TRUE, numeric |-> FALSE, year |-> 0, month |-> 0]
FormatCheck(y, m) == [present |-> TRUE, numeric |-> TRUE, year |-> y, month |-> m]

NoDialog == [open |-> FALSE, today |-> NULL, detected |-> <<>>]

\* a process that is not inside check_and_delete_pending_deletions, and the
\* two processes, the application and the notification service, outside it
NotChecking == [pc |-> "idle", today |-> NULL, is_new_month |-> FALSE]
NoProc == [app |-> NotChecking, svc |-> NotChecking]

PaymentIds == {1, 2}
IncomeIds == {1}
OneTimeIds == {1}

\* the rows the store holds when the model starts
SeedPayments ==
    [p \in PaymentIds |->
        [payment_day |-> IF p = 1 THEN 5 ELSE 31,
         amount |-> 10 * p,
         last_paid_date |-> NULL,
         delete_next_month |-> 0,
         pay_period_months |-> IF p = 1 THEN NullPeriod ELSE 2,
         period_start_date |-> MkDate(StartYear, StartMonth, 1),
         is_active |-> 1]]

SeedIncome ==
    [i \in IncomeIds |->
        [income_day |-> 1, amount |-> 100, last_received_date |-> NULL]]

SeedOneTime ==
    [o \in OneTimeIds |->
        [payment_date |-> MkDate(MonthAt(1)[1], MonthAt(1)[2], MidDay),
         amount |-> 5,
         paid |-> 0]]

Init ==
    /\ today = StartDate
    /\ clock = 0
    /\ recurring_payments = SeedPayments
    /\ recurring_income = SeedIncome
    /\ one_time_payments = SeedOneTime
    /\ payment_history = {}
    /\ recent_transactions = {}
    /\ next_history_id = 1
    /\ next_transaction_id = 1
    /\ monthly_summary = [k \in {} |-> NULL]
    /\ last_deletion_check \in {NoRow, Garbage}
    /\ dialog = NoDialog
    /\ ret = [op |-> "init", result |-> "none"]
    /\ checks = [year |-> 0, month |-> 0, runs |-> 0]
    /\ flagged_in = [p \in PaymentIds |-> NoCheck]
    /\ proc = NoProc

---------------------------------------------------------------------------
(* Monthly summary *)

RECURSIVE SumAmounts(_)
SumAmounts(rows) ==
    IF rows = {} THEN 0
    ELSE LET r == CHOOSE x \in rows : TRUE
         IN  r.amount + SumAmounts(rows \ {r})

\* the income rows as a set that keeps equal amounts apart
IncomeRows(income) == { [id |-> i, amount |-> income[i].amount] : i \in DOMAIN income }

\* update_monthly_summary working the savings out anew, as nothing set aside
update_monthly_summary_zero_savings(ms, hist, income, td, month, year) ==
    LET is_current_month == (month = td.month /\ year = td.year)
        total_payments ==
            SumAmounts({h \in hist : /\ h.payment_type \in {"recurring", "one_time"}
                                     /\ h.month = month /\ h.year = year})
        total_income ==
            IF is_current_month
            THEN SumAmounts(IncomeRows(income))
            ELSE SumAmounts({h \in hist : /\ h.payment_type = "income"
                                          /\ h.month = month /\ h.year = year})
        row == [total_payments |-> total_payments,
                total_income |-> total_income,
                savings_amount |-> 0,
                net_savings |-> total_income - total_payments]
    IN  [k \in (DOMAIN ms) \cup {<<month, year>>} |->
            IF k = <<month, year>> THEN row ELSE ms[k]]

\* update_monthly_summary taking every month for the current one
update_monthly_summary_forecast(ms, hist, income, td, month, year) ==
    LET total_payments ==
            SumAmounts({h \in hist : /\ h.payment_type \in {"recurring", "one_time"}
                                     /\ h.month = month /\ h.year = year})
        total_income == SumAmounts(IncomeRows(income))
        savings ==
            IF <<month, year>> \in DOMAIN ms THEN ms[<<month, year>>].savings_amount ELSE 0
        row == [total_payments |-> total_payments,
                total_income |-> total_income,
                savings_amount |-> savings,
                net_savings |-> total_income - total_payments - savings]
    IN  [k \in (DOMAIN ms) \cup {<<month, year>>} |->
            IF k = <<month, year>> THEN row ELSE ms[k]]

update_monthly_summary(ms, hist, income, td, month, year) ==
    LET is_current_month == (month = td.month /\ year = td.year)
        total_payments ==
            SumAmounts({h \in hist : /\ h.payment_type \in {"recurring", "one_time"}
                                     /\ h.month = month /\ h.year = year})
        total_income ==
            IF is_current_month
            THEN SumAmounts(IncomeRows(income))
            ELSE SumAmounts({h \in hist : /\ h.payment_type = "income"
                                          /\ h.month = month /\ h.year = year})
        savings ==
            IF <<month, year>> \in DOMAIN ms THEN ms[<<month, year>>].savings_amount ELSE 0
        row == [total_payments |-> total_payments,
                total_income |-> total_income,
                savings_amount |-> savings,
                net_savings |-> total_income - total_payments - savings]
    IN  [k \in (DOMAIN ms) \cup {<<month, year>>} |->
            IF k = <<month, year>> THEN row ELSE ms[k]]

\* load_history first brings the current month's summary up to date
load_history(ms, hist, income, td) ==
    update_monthly_summary(ms, hist, income, td, td.month, td.year)

---------------------------------------------------------------------------
(* Deferred deletion and pay-period expiry *)

\* last_check_year, last_check_month as the code parses them; 0 stands for None
ParseCheck(setting) ==
    IF setting.present /\ setting.numeric
    THEN <<setting.year, setting.month>>
    ELSE NoCheck

\* is_new_month with the comparison of the months not strict
is_new_month_not_strict(last_check, current_year, current_month) ==
    IF last_check[2] = 0 \/ last_check[1] = 0
    THEN FALSE
    ELSE \/ current_year > last_check[1]
         \/ current_year = last_check[1] /\ current_month >= last_check[2]

\* is_new_month without the branch for a first run
is_new_month_no_first_run(last_check, current_year, current_month) ==
    \/ current_year > last_check[1]
    \/ current_year = last_check[1] /\ current_month > last_check[2]

is_new_month(last_check, current_year, current_month) ==
    IF last_check[2] = 0 \/ last_check[1] = 0
    THEN FALSE
    ELSE \/ current_year > last_check[1]
         \/ current_year = last_check[1] /\ current_month > last_check[2]

\* pending_deletions stopping after the first row
pending_deletions_first(rp) ==
    {p \in DOMAIN rp : /\ rp[p].delete_next_month = 1
                       /\ \A q \in DOMAIN rp : rp[q].delete_next_month = 1 => p <= q}

\* pending_deletions selecting every payment, flagged or not
pending_deletions_all(rp) == DOMAIN rp

pending_deletions(rp) == {p \in DOMAIN rp : rp[p].delete_next_month = 1}

Remove(rp, ids) == [p \in (DOMAIN rp) \ ids |-> rp[p]]

\* FinanceApp.check_and_delete_pending_deletions: the table and the setting it
\* commits, and the ids it deleted
check_and_delete_pending_deletions(rp, setting, td) ==
    LET new_month == is_new_month(ParseCheck(setting), td.year, td.month)
        deleted == IF new_month THEN pending_deletions(rp) ELSE {}
    IN  [rp |-> Remove(rp, deleted),
         setting |-> FormatCheck(td.year, td.month),
         deleted |-> deleted]

\* notification_service.check_and_delete_pending_deletions
svc_check_and_delete_pending_deletions(rp, setting, td) ==
    LET last_check == IF setting.present /\ setting.numeric
                      THEN <<setting.year, setting.month>> ELSE NoCheck
        new_month ==
            IF last_check[2] = 0 \/ last_check[1] = 0 THEN FALSE
            ELSE \/ td.year > last_check[1]
                 \/ td.year = last_check[1] /\ td.month > last_check[2]
        deleted == IF new_month
                   THEN {p \in DOMAIN rp : rp[p].delete_next_month = 1}
                   ELSE {}
    IN  [rp |-> Remove(rp, deleted),
         setting |-> FormatCheck(td.year, td.month),
         deleted |-> deleted]

\* months_elapsed counting the months of one year only
months_elapsed_same_year(start_date, td) == td.month - start_date.month

months_elapsed(start_date, td) ==
    (td.year - start_date.year) * 12 + (td.month - start_date.month)

\* the payments check_and_disable_expired_payments disables (both programs)
expired(rp, td) ==
    {p \in DOMAIN rp :
        /\ rp[p].is_active = 1
        /\ rp[p].pay_period_months # NullPeriod
        /\ rp[p].pay_period_months # -1
        /\ rp[p].period_start_date # NULL
        /\ months_elapsed(rp[p].period_start_date, td) >= rp[p].pay_period_months}

check_and_disable_expired_payments(rp, td) ==
    [p \in DOMAIN rp |->
        IF p \in expired(rp, td) THEN [rp[p] EXCEPT !.is_active = 0] ELSE rp[p]]

\* one more deletion check in today's month; runs counts 1, then 2 for "again"
CheckRun(c, td) ==
    [year |-> td.year, month |-> td.month,
     runs |-> IF c.year = td.year /\ c.month = td.month THEN 2 ELSE 1]

\* FinanceApp.__init__: the history tab loads the summary, then the two checks
AppStart ==
    /\ ~dialog.open
    /\ LET ms == load_history(monthly_summary, payment_history, recurring_income, today)
           rp1 == check_and_disable_expired_payments(recurring_payments, today)
           chk == check_and_delete_pending_deletions(rp1, last_deletion_check, today)
       IN  /\ monthly_summary' = ms
           /\ recurring_payments' = chk.rp
           /\ last_deletion_check' = chk.setting
           /\ ret' = [op |-> "app_start",
                      result |-> IF chk.deleted # {} THEN "Payments Deleted" ELSE "none"]
    /\ checks' = CheckRun(checks, today)
    /\ UNCHANGED <<today, clock, recurring_income, one_time_payments, payment_history,
                   recent_transactions, next_history_id, next_transaction_id,
                   dialog, flagged_in, proc>>

\* notification_service.main: the deletion check, then the expiry check
ServiceMain ==
    /\ LET chk == svc_check_and_delete_pending_deletions(
                      recurring_payments, last_deletion_check, today)
           rp1 == check_and_disable_expired_payments(chk.rp, today)
       IN  /\ recurring_payments' = rp1
           /\ last_deletion_check' = chk.setting
           /\ ret' = [op |-> "service_main",
                      result |-> IF chk.deleted # {} THEN "Payments Deleted" ELSE "none"]
    /\ checks' = CheckRun(checks, today)
    /\ UNCHANGED <<today, clock, recurring_income, one_time_payments, payment_history,
                   recent_transactions, next_history_id, next_transaction_id,
                   monthly_summary, dialog, flagged_in, proc>>

\* FinanceApp.mark_delete_next_month, the question answered Yes
mark_delete_next_month(p) ==
    /\ ~dialog.open
    /\ p \in DOMAIN recurring_payments
    /\ IF recurring_payments[p].delete_next_month = 1
       THEN /\ recurring_payments' =
                   [recurring_payments EXCEPT ![p].delete_next_month = 0]
            /\ flagged_in' = [flagged_in EXCEPT ![p] = NoCheck]
       ELSE /\ recurring_payments' =
                   [recurring_payments EXCEPT ![p].delete_next_month = 1]
            /\ flagged_in' = [flagged_in EXCEPT ![p] = <<today.year, today.month>>]
    /\ ret' = [op |-> "mark_delete_next_month", result |-> "Success"]
    /\ UNCHANGED <<today, clock, recurring_income, one_time_payments, payment_history,
                   recent_transactions, next_history_id, next_transaction_id,
                   monthly_summary, last_deletion_check, dialog, checks, proc>>

---------------------------------------------------------------------------
(* Time *)

\* CURRENT_TIMESTAMP has one-second resolution and only the order of the stamps
\* is read, so the clock counts the seconds in which some row was stamped: a
\* second passing is seen only when the current one has stamped a row
Stamped == \E t \in recent_transactions : t.created_at = clock

Tick ==
    /\ Stamped
    /\ clock' = clock + 1
    /\ UNCHANGED <<today, store, dialog, ret, checks, flagged_in, proc>>

AdvanceDate ==
    /\ \E d \in Calendar :
          /\ d # today
          /\ DateLE(today, d)
          /\ today' = d
    /\ clock' = IF Stamped THEN clock + 1 ELSE clock
    /\ UNCHANGED <<store, dialog, ret, checks, flagged_in, proc>>

---------------------------------------------------------------------------
(* Marking as fulfilled *)

HistoryRow(id, pid, ptype, amount, date, month, year) ==
    [id |-> id, payment_id |-> pid, payment_type |-> ptype, amount |-> amount,
     payment_date |-> date, month |-> month, year |-> year]

TransactionRow(id, hid, pid, ptype, amount, date, month, year, action, old, at) ==
    [id |-> id, history_id |-> hid, payment_id |-> pid, payment_type |-> ptype,
     amount |-> amount, payment_date |-> date, month |-> month, year |-> year,
     action_type |-> action, old_last_paid_date |-> old, created_at |-> at]

\* what FinanceApp.mark_recurring_payment_paid on the selected row p does to the
\* database; cap bounds the ids the model hands out
mark_recurring_payment_paid_db(p, cap) ==
    /\ p \in DOMAIN recurring_payments
    /\ next_history_id <= cap
    /\ LET old_last_paid == recurring_payments[p].last_paid_date
           amount == recurring_payments[p].amount
           hist == payment_history \cup
                     {HistoryRow(next_history_id, p, "recurring", amount, today,
                                 today.month, today.year)}
       IN  /\ recurring_payments' =
                  [recurring_payments EXCEPT ![p].last_paid_date = today]
           /\ payment_history' = hist
           /\ recent_transactions' = recent_transactions \cup
                  {TransactionRow(next_transaction_id, next_history_id, p, "recurring",
                                  amount, today, today.month, today.year,
                                  "mark_paid", old_last_paid, clock)}
           /\ monthly_summary' =
                  load_history(
                      update_monthly_summary(monthly_summary, hist, recurring_income,
                                             today, today.month, today.year),
                      hist, recurring_income, today)
    /\ next_history_id' = next_history_id + 1
    /\ next_transaction_id' = next_transaction_id + 1
    /\ ret' = [op |-> "mark_recurring_payment_paid", result |-> "Success"]
    /\ UNCHANGED <<today, clock, recurring_income, one_time_payments,
                   last_deletion_check, dialog, checks, flagged_in, proc>>

\* the handler in this window: no question of detect_payments is open
mark_recurring_payment_paid(p, cap) ==
    /\ ~dialog.open
    /\ mark_recurring_payment_paid_db(p, cap)

\* FinanceApp.mark_recurring_income_received on the selected row i
mark_recurring_income_received(i, cap) ==
    /\ ~dialog.open
    /\ i \in DOMAIN recurring_income
    /\ next_history_id <= cap
    /\ LET old_last_received == recurring_income[i].last_received_date
           amount == recurring_income[i].amount
           hist == payment_history \cup
                     {HistoryRow(next_history_id, i, "income", amount, today,
                                 today.month, today.year)}
           income == [recurring_income EXCEPT ![i].last_received_date = today]
       IN  /\ recurring_income' = income
           /\ payment_history' = hist
           /\ recent_transactions' = recent_transactions \cup
                  {TransactionRow(next_transaction_id, next_history_id, i, "income",
                                  amount, today, today.month, today.year,
                                  "mark_received", old_last_received, clock)}
           /\ monthly_summary' =
                  load_history(
                      update_monthly_summary(monthly_summary, hist, income,
                                             today, today.month, today.year),
                      hist, income, today)
    /\ next_history_id' = next_history_id + 1
    /\ next_transaction_id' = next_transaction_id + 1
    /\ ret' = [op |-> "mark_recurring_income_received", result |-> "Success"]
    /\ UNCHANGED <<today, clock, recurring_payments, one_time_payments,
                   last_deletion_check, dialog, checks, flagged_in, proc>>

\* FinanceApp.mark_one_time_payment_paid on the selected row o
mark_one_time_payment_paid(o, cap) ==
    /\ ~dialog.open
    /\ o \in DOMAIN one_time_payments
    /\ IF one_time_payments[o].paid = 1
       THEN /\ ret' = [op |-> "mark_one_time_payment_paid", result |-> "Already Paid"]
            /\ UNCHANGED <<one_time_payments, payment_history, recent_transactions,
                           monthly_summary, next_history_id, next_transaction_id>>
       ELSE /\ next_history_id <= cap
            /\ LET payment_date == one_time_payments[o].payment_date
                   amount == one_time_payments[o].amount
                   hist == payment_history \cup
                             {HistoryRow(next_history_id, o, "one_time", amount,
                                         payment_date, payment_date.month,
                                         payment_date.year)}
               IN  /\ one_time_payments' = [one_time_payments EXCEPT ![o].paid = 1]
                   /\ payment_history' = hist
                   /\ recent_transactions' = recent_transactions \cup
                          {TransactionRow(next_transaction_id, next_history_id, o,
                                          "one_time", amount, payment_date,
                                          payment_date.month, payment_date.year,
                                          "mark_paid", NULL, clock)}
                   /\ monthly_summary' =
                          load_history(
                              update_monthly_summary(monthly_summary, hist,
                                                     recurring_income, today,
                                                     payment_date.month,
                                                     payment_date.year),
                              hist, recurring_income, today)
            /\ next_history_id' = next_history_id + 1
            /\ next_transaction_id' = next_transaction_id + 1
            /\ ret' = [op |-> "mark_one_time_payment_paid", result |-> "Success"]
    /\ UNCHANGED <<today, clock, recurring_payments, recurring_income,
                   last_deletion_check, dialog, checks, flagged_in, proc>>

---------------------------------------------------------------------------
(* Undo *)

\* SELECT ... FROM recent_transactions ORDER BY created_at DESC LIMIT 1: a row
\* with the greatest created_at; SQL leaves the choice among equal timestamps
\* open, so every such row is a possible answer
most_recent_transactions(rt) ==
    {t \in rt : \A u \in rt : u.created_at <= t.created_at}

\* undo_nothing refreshing the views as the handler does after an undo
undo_nothing_refreshing ==
    /\ ~dialog.open
    /\ recent_transactions = {}
    /\ monthly_summary' =
           load_history(monthly_summary, payment_history, recurring_income, today)
    /\ ret' = [op |-> "undo_last_payment", result |-> "No Transaction"]
    /\ UNCHANGED <<today, clock, recurring_payments, recurring_income,
                   one_time_payments, payment_history, recent_transactions,
                   next_history_id, next_transaction_id, last_deletion_check,
                   dialog, checks, flagged_in, proc>>

\* nothing in recent_transactions: the handler reports it and returns
undo_nothing ==
    /\ ~dialog.open
    /\ recent_transactions = {}
    /\ ret' = [op |-> "undo_last_payment", result |-> "No Transaction"]
    /\ UNCHANGED <<today, clock, store, dialog, checks, flagged_in, proc>>

\* the question answered Yes for the fetched transaction t
undo_transaction(t) ==
    /\ ~dialog.open
    /\ t \in most_recent_transactions(recent_transactions)
    /\ LET hist == {h \in payment_history : h.id # t.history_id}
           income ==
               IF /\ t.payment_type = "income" /\ t.action_type = "mark_received"
                  /\ t.payment_id \in DOMAIN recurring_income
               THEN [recurring_income EXCEPT
                        ![t.payment_id].last_received_date = t.old_last_paid_date]
               ELSE recurring_income
       IN  /\ payment_history' = hist
           /\ recurring_payments' =
                  IF /\ t.payment_type = "recurring" /\ t.action_type = "mark_paid"
                     /\ t.payment_id \in DOMAIN recurring_payments
                  THEN [recurring_payments EXCEPT
                           ![t.payment_id].last_paid_date = t.old_last_paid_date]
                  ELSE recurring_payments
           /\ recurring_income' = income
           /\ one_time_payments' =
                  IF /\ t.payment_type = "one_time" /\ t.action_type = "mark_paid"
                     /\ t.payment_id \in DOMAIN one_time_payments
                  THEN [one_time_payments EXCEPT ![t.payment_id].paid = 0]
                  ELSE one_time_payments
           /\ recent_transactions' = recent_transactions \ {t}
           /\ monthly_summary' =
                  load_history(
                      update_monthly_summary(monthly_summary, hist, income, today,
                                             t.month, t.year),
                      hist, income, today)
    /\ ret' = [op |-> "undo_last_payment", result |-> "Success"]
    /\ UNCHANGED <<today, clock, next_history_id, next_transaction_id,
                   last_deletion_check, dialog, checks, flagged_in, proc>>

undo_last_payment ==
    \/ undo_nothing
    \/ \E t \in recent_transactions : undo_transaction(t)

---------------------------------------------------------------------------
(* Detect and commit *)

RECURSIVE Ascending(_)
Ascending(ids) ==
    IF ids = {} THEN <<>>
    ELSE LET m == CHOOSE x \in ids : \A y \in ids : x <= y
         IN  <<m>> \o Ascending(ids \ {m})

\* detected_recurring not looking at what has been paid this month
detected_recurring_any_due(rp, hist, td) ==
    {p \in DOMAIN rp :
        /\ rp[p].is_active = 1
        /\ DateLE(ThisMonthDate(td.year, td.month, rp[p].payment_day), td)}

\* the recurring payments the first loop of detect_payments appends
detected_recurring(rp, hist, td) ==
    {p \in DOMAIN rp :
        /\ rp[p].is_active = 1
        /\ DateLE(ThisMonthDate(td.year, td.month, rp[p].payment_day), td)
        /\ ~ /\ rp[p].last_paid_date # NULL
             /\ rp[p].last_paid_date.month = td.month
             /\ rp[p].last_paid_date.year = td.year
        /\ ~ \E h \in hist : /\ h.payment_id = p /\ h.payment_type = "recurring"
                             /\ h.month = td.month /\ h.year = td.year}

\* detected_one_time not looking at the paid flag nor at the history
detected_one_time_any_due(otp, hist, td) ==
    {o \in DOMAIN otp : DateLE(otp[o].payment_date, td)}

\* the one-time payments the second loop appends
detected_one_time(otp, hist, td) ==
    {o \in DOMAIN otp :
        /\ otp[o].paid = 0
        /\ DateLE(otp[o].payment_date, td)
        /\ ~ \E h \in hist : /\ h.payment_id = o /\ h.payment_type = "one_time"
                             /\ h.payment_date = otp[o].payment_date}

detected_payments(rp, otp, hist, td) ==
    LET rec == Ascending(detected_recurring(rp, hist, td))
        one == Ascending(detected_one_time(otp, hist, td))
    IN  [k \in 1..Len(rec) |->
            [ptype |-> "recurring", payment_id |-> rec[k], amount |-> rp[rec[k]].amount,
             payment_date |-> ThisMonthDate(td.year, td.month, rp[rec[k]].payment_day)]]
        \o
        [k \in 1..Len(one) |->
            [ptype |-> "one_time", payment_id |-> one[k], amount |-> otp[one[k]].amount,
             payment_date |-> otp[one[k]].payment_date]]

\* the first half of detect_payments: nothing found, or the question is put
detect_payments ==
    /\ ~dialog.open
    /\ LET found == detected_payments(recurring_payments, one_time_payments,
                                      payment_history, today)
       IN  IF Len(found) = 0
           THEN /\ dialog' = dialog
                /\ ret' = [op |-> "detect_payments", result |-> "No Payments Detected"]
           ELSE /\ next_history_id + Len(found) - 1 <= MaxHistory
                /\ dialog' = [open |-> TRUE, today |-> today, detected |-> found]
                /\ ret' = [op |-> "detect_payments", result |-> "Detect Payments"]
    /\ UNCHANGED <<today, clock, store, checks, flagged_in, proc>>

\* the loop over detected_payments inside one transaction; db is the tables
\* and counters as the loop has changed them so far
RECURSIVE commit_items(_, _, _, _)
commit_items(items, db, td, at) ==
    IF items = <<>> THEN db
    ELSE
      LET it == Head(items)
          next ==
            IF it.ptype = "recurring"
            THEN IF it.payment_id \notin DOMAIN db.rp
                 THEN db   \* fetchone() is None: the item raises and is skipped
                 ELSE [db EXCEPT
                         !.rp = [db.rp EXCEPT ![it.payment_id].last_paid_date = td],
                         !.hist = db.hist \cup
                             {HistoryRow(db.nh, it.payment_id, "recurring", it.amount,
                                         td, td.month, td.year)},
                         !.rt = db.rt \cup
                             {TransactionRow(db.nt, db.nh, it.payment_id, "recurring",
                                             it.amount, td, td.month, td.year,
                                             "mark_paid",
                                             db.rp[it.payment_id].last_paid_date, at)},
                         !.nh = db.nh + 1,
                         !.nt = db.nt + 1,
                         !.months = db.months \cup {<<td.month, td.year>>}]
            ELSE [db EXCEPT
                    !.otp = IF it.payment_id \in DOMAIN db.otp
                            THEN [db.otp EXCEPT ![it.payment_id].paid = 1]
                            ELSE db.otp,
                    !.hist = db.hist \cup
                        {HistoryRow(db.nh, it.payment_id, "one_time", it.amount,
                                    it.payment_date, it.payment_date.month,
                                    it.payment_date.year)},
                    !.rt = db.rt \cup
                        {TransactionRow(db.nt, db.nh, it.payment_id, "one_time",
                                        it.amount, it.payment_date,
                                        it.payment_date.month, it.payment_date.year,
                                        "mark_paid", NULL, at)},
                    !.nh = db.nh + 1,
                    !.nt = db.nt + 1,
                    !.months = db.months \cup
                        {<<it.payment_date.month, it.payment_date.year>>}]
      IN  commit_items(Tail(items), next, td, at)

\* update_monthly_summary for each month of months_to_update
RECURSIVE update_months(_, _, _, _, _)
update_months(months, ms, hist, income, td) ==
    IF months = {} THEN ms
    ELSE LET k == CHOOSE x \in months : TRUE
         IN  update_months(months \ {k},
                           update_monthly_summary(ms, hist, income, td, k[1], k[2]),
                           hist, income, td)

\* the question answered Yes
commit_detected ==
    /\ dialog.open
    /\ LET db == commit_items(dialog.detected,
                              [rp |-> recurring_payments, otp |-> one_time_payments,
                               hist |-> payment_history, rt |-> recent_transactions,
                               nh |-> next_history_id, nt |-> next_transaction_id,
                               months |-> {}],
                              dialog.today, clock)
       IN  /\ recurring_payments' = db.rp
           /\ one_time_payments' = db.otp
           /\ payment_history' = db.hist
           /\ recent_transactions' = db.rt
           /\ next_history_id' = db.nh
           /\ next_transaction_id' = db.nt
           /\ monthly_summary' =
                  load_history(
                      update_months(db.months, monthly_summary, db.hist,
                                    recurring_income, today),
                      db.hist, recurring_income, today)
    /\ dialog' = NoDialog
    /\ ret' = [op |-> "commit_detected", result |-> "Success"]
    /\ UNCHANGED <<today, clock, recurring_income, last_deletion_check,
                   checks, flagged_in, proc>>

\* the question answered No
decline_detected ==
    /\ dialog.open
    /\ dialog' = NoDialog
    /\ ret' = [op |-> "commit_detected", result |-> "No"]
    /\ UNCHANGED <<today, clock, store, checks, flagged_in, proc>>

---------------------------------------------------------------------------
(* Editing a recurring payment *)

\* the pay periods a stored row can carry: NULL, the legacy -1, or months
PeriodValues == {NullPeriod, -1} \cup (1..MaxPeriod)

\* the pay periods PaymentDialog.get_data returns: None, or the spin box value
DialogPeriods == {NullPeriod} \cup (1..MaxPeriod)

\* edit_recurring_payment also switching the payment on again
edit_recurring_payment_reactivating(p, pay_period_months) ==
    /\ ~dialog.open
    /\ p \in DOMAIN recurring_payments
    /\ pay_period_months \in DialogPeriods
    /\ recurring_payments' =
           [recurring_payments EXCEPT
               ![p].pay_period_months = pay_period_months,
               ![p].period_start_date = MkDate(today.year, today.month, 1),
               ![p].is_active = 1]
    /\ ret' = [op |-> "edit_recurring_payment", result |-> "Success"]
    /\ UNCHANGED <<today, clock, recurring_income, one_time_payments, payment_history,
                   recent_transactions, next_history_id, next_transaction_id,
                   monthly_summary, last_deletion_check, dialog, checks, flagged_in, proc>>

\* FinanceApp.edit_recurring_payment on the selected row p, the dialog accepted
\* with the name, amount and day left as they were: the UPDATE writes the pay
\* period of the dialog and restarts the period at the first of this month
edit_recurring_payment(p, pay_period_months) ==
    /\ ~dialog.open
    /\ p \in DOMAIN recurring_payments
    /\ pay_period_months \in DialogPeriods
    /\ recurring_payments' =
           [recurring_payments EXCEPT
               ![p].pay_period_months = pay_period_months,
               ![p].period_start_date = MkDate(today.year, today.month, 1)]
    /\ ret' = [op |-> "edit_recurring_payment", result |-> "Success"]
    /\ UNCHANGED <<today, clock, recurring_income, one_time_payments, payment_history,
                   recent_transactions, next_history_id, next_transaction_id,
                   monthly_summary, last_deletion_check, dialog, checks, flagged_in, proc>>

---------------------------------------------------------------------------
(* Forward-looking views: summary tab, calendar, notification service *)

\* date.toordinal(), counted from the first of January of StartYear: only
\* differences of two dates are read
RECURSIVE DaysBeforeMonth(_, _)
DaysBeforeMonth(y, m) ==
    IF m <= 1 THEN 0 ELSE DaysInMonth(y, m - 1) + DaysBeforeMonth(y, m - 1)

toordinal(d) ==
    365 * (d.year - StartYear)
      + Cardinality({z \in StartYear..(d.year - 1) : IsLeap(z)})
      + DaysBeforeMonth(d.year, d.month) + d.day

\* the month after / before (y, m), as <<year, month>>
NextMonth(y, m) == IF m = 12 THEN <<y + 1, 1>> ELSE <<y, m + 1>>
PrevMonth(y, m) == IF m = 1 THEN <<y - 1, 12>> ELSE <<y, m - 1>>

\* load_summary: the recurring part of "money coming out" (active rows only)
load_summary_total_recurring(rp) ==
    SumAmounts({ [id |-> p, amount |-> rp[p].amount] :
                 p \in {q \in DOMAIN rp : rp[q].is_active = 1} })

\* load_summary: the recurring payments put on the list of upcoming payments,
\* with the date they are listed under
load_summary_upcoming(rp, hist, td) ==
    LET paid(p) == \E h \in hist : /\ h.payment_id = p /\ h.payment_type = "recurring"
                                   /\ h.month = td.month /\ h.year = td.year
        this(p) == ThisMonthDate(td.year, td.month, rp[p].payment_day)
        nm == NextMonth(td.year, td.month)
    IN  { [payment_id |-> p,
           date |-> IF paid(p) THEN ThisMonthDate(nm[1], nm[2], rp[p].payment_day)
                    ELSE this(p)] :
          p \in {q \in DOMAIN rp : /\ rp[q].is_active = 1
                                   /\ (paid(q) \/ DateLE(td, this(q)))} }

\* calculate_daily_totals: the amounts that fall on each day of the month
DailyEntries(rp, otp, income, month, year) ==
    [outgoing |->
        { [kind |-> "recurring", id |-> p, amount |-> rp[p].amount,
           day |-> ThisMonthDate(year, month, rp[p].payment_day).day] :
          p \in {q \in DOMAIN rp : rp[q].is_active = 1} }
        \cup
        { [kind |-> "one_time", id |-> o, amount |-> otp[o].amount,
           day |-> otp[o].payment_date.day] :
          o \in {q \in DOMAIN otp : /\ otp[q].payment_date.month = month
                                    /\ otp[q].payment_date.year = year} },
     incoming |->
        { [kind |-> "income", id |-> i, amount |-> income[i].amount,
           day |-> ThisMonthDate(year, month, income[i].income_day).day] :
          i \in DOMAIN income }]

\* daily_totals[day][field] += amount for each of the rows, a day met for the
\* first time being entered with both amounts 0
RECURSIVE add_to_daily_totals(_, _, _)
add_to_daily_totals(daily_totals, rows, field) ==
    IF rows = {} THEN daily_totals
    ELSE LET x == CHOOSE r \in rows : TRUE
             entry == IF x.day \in DOMAIN daily_totals
                      THEN daily_totals[x.day]
                      ELSE [outgoing |-> 0, incoming |-> 0]
             added == IF field = "outgoing"
                      THEN [entry EXCEPT !.outgoing = @ + x.amount]
                      ELSE [entry EXCEPT !.incoming = @ + x.amount]
         IN  add_to_daily_totals(
                 [d \in (DOMAIN daily_totals) \cup {x.day} |->
                     IF d = x.day THEN added ELSE daily_totals[d]],
                 rows \ {x}, field)

\* the loop over the days with the running totals taken after the day is written
RECURSIVE running_totals_before_day(_, _, _, _, _)
running_totals_before_day(daily_totals, day, last_day, running_outgoing, running_incoming) ==
    IF day > last_day THEN [d \in {} |-> 0]
    ELSE LET entry == IF day \in DOMAIN daily_totals
                      THEN daily_totals[day]
                      ELSE [outgoing |-> 0, incoming |-> 0]
             rest == running_totals_before_day(daily_totals, day + 1, last_day,
                                               running_outgoing + entry.outgoing,
                                               running_incoming + entry.incoming)
         IN  [d \in {day} \cup DOMAIN rest |->
                 IF d = day
                 THEN [outgoing |-> entry.outgoing,
                       incoming |-> entry.incoming,
                       running_outgoing |-> running_outgoing,
                       running_incoming |-> running_incoming,
                       running_net |-> running_incoming - running_outgoing]
                 ELSE rest[d]]

\* for day in range(1, last_day + 1): the running totals take in the day's
\* amounts, a day without amounts is entered with 0, and the totals are written
RECURSIVE running_totals(_, _, _, _, _)
running_totals(daily_totals, day, last_day, running_outgoing, running_incoming) ==
    IF day > last_day THEN [d \in {} |-> 0]
    ELSE LET entry == IF day \in DOMAIN daily_totals
                      THEN daily_totals[day]
                      ELSE [outgoing |-> 0, incoming |-> 0]
             ro == running_outgoing + entry.outgoing
             ri == running_incoming + entry.incoming
             rest == running_totals(daily_totals, day + 1, last_day, ro, ri)
         IN  [d \in {day} \cup DOMAIN rest |->
                 IF d = day
                 THEN [outgoing |-> entry.outgoing,
                       incoming |-> entry.incoming,
                       running_outgoing |-> ro,
                       running_incoming |-> ri,
                       running_net |-> ri - ro]
                 ELSE rest[d]]

calculate_daily_totals(rp, otp, income, month, year) ==
    LET e == DailyEntries(rp, otp, income, month, year)
        daily_totals ==
            add_to_daily_totals(
                add_to_daily_totals([d \in {} |-> 0], e.outgoing, "outgoing"),
                e.incoming, "incoming")
        \* (datetime(next_year, next_month, 1) - timedelta(days=1)).day
        nm == NextMonth(year, month)
        pm == PrevMonth(nm[1], nm[2])
        last_day == DaysInMonth(pm[1], pm[2])
    IN  running_totals(daily_totals, 1, last_day, 0, 0)

\* the days of the month the rows of a call are given
TotalsDays == {1, 15, 30, 31}

\* a call of calculate_daily_totals on the month and year held in ret
call_calculate_daily_totals ==
    /\ ret.op = "calculate_daily_totals"
    /\ ret.result = NULL
    /\ ret' = [ret EXCEPT !.result =
                   calculate_daily_totals(recurring_payments, one_time_payments,
                                          recurring_income, ret.month, ret.year)]
    /\ UNCHANGED <<today, clock, store, dialog, checks, flagged_in, proc>>

\* notification_service.calculate_payment_dates: min(payment_day, 28) is a day
\* of every month, so neither the while loops nor the except branch run
svc_calculate_payment_dates(payment_day, last_paid_date, current_month, current_year) ==
    LET day == IF payment_day < 28 THEN payment_day ELSE 28
        nm == NextMonth(current_year, current_month)
        pm == PrevMonth(current_year, current_month)
        this_month_date == MkDate(current_year, current_month, day)
        next_month_date == MkDate(nm[1], nm[2], day)
        last_month_date == MkDate(pm[1], pm[2], day)
    IN  [last |-> last_month_date,
         current |-> IF last_paid_date # NULL /\ DateLE(this_month_date, last_paid_date)
                     THEN next_month_date ELSE this_month_date,
         next |-> next_month_date]

\* notification_service.check_upcoming_payments: the recurring payments reported
svc_check_upcoming_payments(rp, hist, td) ==
    {p \in DOMAIN rp :
        LET current_date == svc_calculate_payment_dates(
                                rp[p].payment_day, rp[p].last_paid_date,
                                td.month, td.year).current
            days_until == toordinal(current_date) - toordinal(td)
        IN  /\ 0 <= days_until /\ days_until <= 7
            /\ ~ \E h \in hist : /\ h.payment_id = p /\ h.payment_type = "recurring"
                                 /\ h.month = td.month /\ h.year = td.year}

\* notification_service.get_financial_summary: total_scheduled
svc_total_scheduled(rp, otp, td) ==
    SumAmounts({ [id |-> p, amount |-> rp[p].amount] : p \in DOMAIN rp })
    + SumAmounts({ [id |-> o, amount |-> otp[o].amount] :
                   o \in {q \in DOMAIN otp : /\ otp[q].payment_date.month = td.month
                                             /\ otp[q].payment_date.year = td.year} })

---------------------------------------------------------------------------
(* A second FinanceApp process on the same database file *)

\* mark_recurring_payment_paid run in a second process: the question this
\* process may have open does not hold it back
second_mark_recurring_payment_paid(p, cap) ==
    mark_recurring_payment_paid_db(p, cap)

\* delete_one_time_payment run in a second process, the question answered Yes
second_delete_one_time_payment(o) ==
    /\ o \in DOMAIN one_time_payments
    /\ one_time_payments' = [q \in (DOMAIN one_time_payments) \ {o} |->
                                one_time_payments[q]]
    /\ ret' = [op |-> "delete_one_time_payment", result |-> "Success"]
    /\ UNCHANGED <<today, clock, recurring_payments, recurring_income,
                   payment_history, recent_transactions, next_history_id,
                   next_transaction_id, monthly_summary, last_deletion_check,
                   dialog, checks, flagged_in, proc>>

---------------------------------------------------------------------------
(* Deleting an obligation *)

\* delete_recurring_payment taking the history rows of the payment with it
delete_recurring_payment_cascading(p) ==
    /\ ~dialog.open
    /\ p \in DOMAIN recurring_payments
    /\ recurring_payments' = Remove(recurring_payments, {p})
    /\ payment_history' =
           {h \in payment_history : ~(h.payment_type = "recurring" /\ h.payment_id = p)}
    /\ ret' = [op |-> "delete_recurring_payment", result |-> "Success"]
    /\ UNCHANGED <<today, clock, recurring_income, one_time_payments,
                   recent_transactions, next_history_id, next_transaction_id,
                   monthly_summary, last_deletion_check, dialog, checks, flagged_in,
                   proc>>

\* FinanceApp.delete_recurring_payment on the selected row p, answered Yes
delete_recurring_payment(p) ==
    /\ ~dialog.open
    /\ p \in DOMAIN recurring_payments
    /\ recurring_payments' = Remove(recurring_payments, {p})
    /\ ret' = [op |-> "delete_recurring_payment", result |-> "Success"]
    /\ UNCHANGED <<today, clock, recurring_income, one_time_payments, payment_history,
                   recent_transactions, next_history_id, next_transaction_id,
                   monthly_summary, last_deletion_check, dialog, checks, flagged_in,
                   proc>>

\* FinanceApp.delete_recurring_income on the selected row i, answered Yes
delete_recurring_income(i) ==
    /\ ~dialog.open
    /\ i \in DOMAIN recurring_income
    /\ recurring_income' = Remove(recurring_income, {i})
    /\ ret' = [op |-> "delete_recurring_income", result |-> "Success"]
    /\ UNCHANGED <<today, clock, recurring_payments, one_time_payments, payment_history,
                   recent_transactions, next_history_id, next_transaction_id,
                   monthly_summary, last_deletion_check, dialog, checks, flagged_in,
                   proc>>

\* FinanceApp.delete_one_time_payment on the selected row o, answered Yes
delete_one_time_payment(o) ==
    /\ ~dialog.open
    /\ o \in DOMAIN one_time_payments
    /\ one_time_payments' = Remove(one_time_payments, {o})
    /\ ret' = [op |-> "delete_one_time_payment", result |-> "Success"]
    /\ UNCHANGED <<today, clock, recurring_payments, recurring_income, payment_history,
                   recent_transactions, next_history_id, next_transaction_id,
                   monthly_summary, last_deletion_check, dialog, checks, flagged_in,
                   proc>>

---------------------------------------------------------------------------
(* FinanceApp.calculate_payment_dates *)

\* the except branch without the step back of one day
last_day_of_month_no_step_back(y, m) ==
    LET nm == NextMonth(y, m) IN MkDate(nm[1], nm[2], 1)

\* (datetime(y, m, 1) + timedelta(days=32)).replace(day=1) - timedelta(days=1):
\* 32 days after the first lie in the next month, whatever the length of this
\* one; the first of that month less one day is the last day of the month before
last_day_of_month(y, m) ==
    LET plus32 == LET nm == NextMonth(y, m)
                  IN  MkDate(nm[1], nm[2], 33 - DaysInMonth(y, m))
        first == MkDate(plus32.year, plus32.month, 1)
        pm == PrevMonth(first.year, first.month)
    IN  MkDate(pm[1], pm[2], DaysInMonth(pm[1], pm[2]))

\* try: datetime(y, m, int(payment_day)) / except ValueError: the last day
month_date(y, m, payment_day) ==
    IF payment_day >= 1 /\ payment_day <= DaysInMonth(y, m)
    THEN MkDate(y, m, payment_day)
    ELSE last_day_of_month(y, m)

\* the month after (y, m) without the turn of the year
next_month_same_year(y, m) == IF m = 12 THEN <<y, 1>> ELSE <<y, m + 1>>

\* next_month, next_year
next_month_of(y, m) == IF m = 12 THEN <<y + 1, 1>> ELSE <<y, m + 1>>

calculate_payment_dates(payment_day, last_paid_date, current_month, current_year) ==
    LET this_month_date == month_date(current_year, current_month, payment_day)
        pm == IF current_month = 1 THEN <<current_year - 1, 12>>
              ELSE <<current_year, current_month - 1>>
        last_month_date == IF last_paid_date # NULL THEN last_paid_date
                           ELSE month_date(pm[1], pm[2], payment_day)
        nm == next_month_of(current_year, current_month)
        next_month_date == month_date(nm[1], nm[2], payment_day)
    IN  [last |-> last_month_date, current |-> this_month_date,
         next |-> next_month_date]

\* the arguments of a call
PaymentDays == 1..31
DateYears == StartYear..(StartYear + NumYears - 1)

\* a call of calculate_payment_dates on the arguments held in ret
call_calculate_payment_dates ==
    /\ ret.op = "calculate_payment_dates"
    /\ ret.result = NULL
    /\ ret' = [ret EXCEPT !.result =
                   calculate_payment_dates(ret.payment_day, ret.last_paid_date,
                                           ret.current_month, ret.current_year)]
    /\ UNCHANGED <<today, clock, store, dialog, checks, flagged_in, proc>>

---------------------------------------------------------------------------
(* The deletion check of two processes, statement by statement *)

\* the SELECT of the checkpoint runs outside any transaction (sqlite3 opens one
\* only before the first INSERT, UPDATE or DELETE), so a process holds what it
\* read while the other one writes; from the INSERT OR REPLACE of the
\* checkpoint to conn.commit() a process holds the write lock of the database

\* a process enters check_and_delete_pending_deletions: today, the checkpoint
\* read and parsed, is_new_month
check_read(setting, td) ==
    [pc |-> "read", today |-> td,
     is_new_month |-> is_new_month(ParseCheck(setting), td.year, td.month)]

\* the transaction of the check: the checkpoint is written, and in a new month
\* the flagged payments are selected and deleted
check_write(rp, local) ==
    LET deleted == IF local.is_new_month THEN pending_deletions(rp) ELSE {}
    IN  [rp |-> Remove(rp, deleted),
         setting |-> FormatCheck(local.today.year, local.today.month),
         deleted |-> deleted]

\* FinanceApp.__init__ up to the SELECT of the checkpoint: load_history, the
\* expiry check, and the read
app_check_read ==
    /\ proc.app.pc = "idle"
    /\ ~dialog.open
    /\ monthly_summary' =
           load_history(monthly_summary, payment_history, recurring_income, today)
    /\ recurring_payments' = check_and_disable_expired_payments(recurring_payments, today)
    /\ proc' = [proc EXCEPT !.app = check_read(last_deletion_check, today)]
    /\ ret' = [op |-> "app_start", result |-> "running"]
    /\ UNCHANGED <<today, clock, recurring_income, one_time_payments, payment_history,
                   recent_transactions, next_history_id, next_transaction_id,
                   last_deletion_check, dialog, checks, flagged_in>>

\* the rest of FinanceApp.check_and_delete_pending_deletions
app_check_write ==
    /\ proc.app.pc = "read"
    /\ LET chk == check_write(recurring_payments, proc.app)
       IN  /\ recurring_payments' = chk.rp
           /\ last_deletion_check' = chk.setting
           /\ ret' = [op |-> "app_start",
                      result |-> IF chk.deleted # {} THEN "Payments Deleted" ELSE "none"]
    /\ checks' = CheckRun(checks, proc.app.today)
    /\ proc' = [proc EXCEPT !.app = NotChecking]
    /\ UNCHANGED <<today, clock, recurring_income, one_time_payments, payment_history,
                   recent_transactions, next_history_id, next_transaction_id,
                   monthly_summary, dialog, flagged_in>>

\* notification_service.main up to the SELECT of the checkpoint
svc_check_read ==
    /\ proc.svc.pc = "idle"
    /\ proc' = [proc EXCEPT !.svc = check_read(last_deletion_check, today)]
    /\ ret' = [op |-> "service_main", result |-> "running"]
    /\ UNCHANGED <<today, clock, store, dialog, checks, flagged_in>>

\* the rest of the service's check_and_delete_pending_deletions, and its
\* expiry check
svc_check_write ==
    /\ proc.svc.pc = "read"
    /\ LET chk == check_write(recurring_payments, proc.svc)
       IN  /\ recurring_payments' = check_and_disable_expired_payments(chk.rp, today)
           /\ last_deletion_check' = chk.setting
           /\ ret' = [op |-> "service_main",
                      result |-> IF chk.deleted # {} THEN "Payments Deleted" ELSE "none"]
    /\ checks' = CheckRun(checks, proc.svc.today)
    /\ proc' = [proc EXCEPT !.svc = NotChecking]
    /\ UNCHANGED <<today, clock, recurring_income, one_time_payments, payment_history,
                   recent_transactions, next_history_id, next_transaction_id,
                   monthly_summary, dialog, flagged_in>>

\* the user flags or unflags a payment in the window of the application
app_mark_delete_next_month(p) ==
    /\ proc.app.pc = "idle"
    /\ mark_delete_next_month(p)

---------------------------------------------------------------------------
(* Savings and the refresh of the history tab *)

\* the amounts the savings box holds when "Save Savings" is pressed
SavingsValues == {0, 7}

\* INSERT OR REPLACE INTO monthly_summary (month, year, savings_amount,
\* updated_at): UNIQUE(month, year) makes the new row take the place of the old
\* one, and the columns not named take their defaults
replace_savings(ms, month, year, savings_amount) ==
    [k \in (DOMAIN ms) \cup {<<month, year>>} |->
        IF k = <<month, year>>
        THEN [total_payments |-> 0, total_income |-> 0,
              savings_amount |-> savings_amount, net_savings |-> 0]
        ELSE ms[k]]

\* no handler of the history tab is between two of its commits
Idle ==
    ~ /\ ret.op \in {"save_current_month_savings", "refresh_history"}
      /\ ret.result = "running"

\* save_current_month_savings up to its conn.commit(): the row of the current
\* month is replaced by one that carries the savings
save_savings_insert(savings_amount) ==
    /\ Idle
    /\ ~dialog.open
    /\ monthly_summary' =
           replace_savings(monthly_summary, today.month, today.year, savings_amount)
    /\ ret' = [op |-> "save_current_month_savings", result |-> "running"]
    /\ UNCHANGED <<today, clock, recurring_payments, recurring_income,
                   one_time_payments, payment_history, recent_transactions,
                   next_history_id, next_transaction_id, last_deletion_check,
                   dialog, checks, flagged_in, proc>>

\* the rest of save_current_month_savings: update_monthly_summary, load_history
save_savings_recompute ==
    /\ ret.op = "save_current_month_savings"
    /\ ret.result = "running"
    /\ monthly_summary' =
           load_history(
               update_monthly_summary(monthly_summary, payment_history,
                                      recurring_income, today, today.month, today.year),
               payment_history, recurring_income, today)
    /\ ret' = [op |-> "save_current_month_savings", result |-> "Success"]
    /\ UNCHANGED <<today, clock, recurring_payments, recurring_income,
                   one_time_payments, payment_history, recent_transactions,
                   next_history_id, next_transaction_id, last_deletion_check,
                   dialog, checks, flagged_in, proc>>

\* sorted(all_months, key=lambda x: (x[1], x[0]), reverse=True), the months
\* being <<month, year>>
RECURSIVE MonthsDescending(_)
MonthsDescending(months) ==
    IF months = {} THEN <<>>
    ELSE LET m == CHOOSE x \in months :
                     \A y \in months : \/ y[2] < x[2]
                                       \/ y[2] = x[2] /\ y[1] <= x[1]
         IN  <<m>> \o MonthsDescending(months \ {m})

\* savings_map: the savings of the summary rows that hold some
savings_map(ms) ==
    [k \in {j \in DOMAIN ms : ms[j].savings_amount # 0} |-> ms[k].savings_amount]

\* all_months: the months of the history, of the summaries, and the current one
all_months(ms, hist, td) ==
    {<<h.month, h.year>> : h \in hist} \cup (DOMAIN ms) \cup {<<td.month, td.year>>}

\* refresh_history up to the loop: the reads
refresh_history_begin ==
    /\ Idle
    /\ ~dialog.open
    /\ ret' = [op |-> "refresh_history", result |-> "running",
               months |-> MonthsDescending(
                              all_months(monthly_summary, payment_history, today)),
               savings_map |-> savings_map(monthly_summary),
               stage |-> "set"]
    /\ UNCHANGED <<today, clock, store, dialog, checks, flagged_in, proc>>

\* the loop of refresh_history at a month of savings_map: the row is replaced
\* by one that carries the savings, and that is committed
refresh_history_set_savings ==
    /\ ret.op = "refresh_history"
    /\ ret.result = "running"
    /\ ret.months # <<>>
    /\ ret.stage = "set"
    /\ Head(ret.months) \in DOMAIN ret.savings_map
    /\ LET k == Head(ret.months)
       IN  monthly_summary' =
               replace_savings(monthly_summary, k[1], k[2], ret.savings_map[k])
    /\ ret' = [ret EXCEPT !.stage = "update"]
    /\ UNCHANGED <<today, clock, recurring_payments, recurring_income,
                   one_time_payments, payment_history, recent_transactions,
                   next_history_id, next_transaction_id, last_deletion_check,
                   dialog, checks, flagged_in, proc>>

\* the loop of refresh_history: update_monthly_summary(month, year)
refresh_history_update ==
    /\ ret.op = "refresh_history"
    /\ ret.result = "running"
    /\ ret.months # <<>>
    /\ ret.stage = "update" \/ Head(ret.months) \notin DOMAIN ret.savings_map
    /\ LET k == Head(ret.months)
       IN  monthly_summary' =
               update_monthly_summary(monthly_summary, payment_history,
                                      recurring_income, today, k[1], k[2])
    /\ ret' = [ret EXCEPT !.months = Tail(ret.months), !.stage = "set"]
    /\ UNCHANGED <<today, clock, recurring_payments, recurring_income,
                   one_time_payments, payment_history, recent_transactions,
                   next_history_id, next_transaction_id, last_deletion_check,
                   dialog, checks, flagged_in, proc>>

\* after the loop of refresh_history: load_history
refresh_history_end ==
    /\ ret.op = "refresh_history"
    /\ ret.result = "running"
    /\ ret.months = <<>>
    /\ monthly_summary' =
           load_history(monthly_summary, payment_history, recurring_income, today)
    /\ ret' = [op |-> "refresh_history", result |-> "History Refreshed"]
    /\ UNCHANGED <<today, clock, recurring_payments, recurring_income,
                   one_time_payments, payment_history, recent_transactions,
                   next_history_id, next_transaction_id, last_deletion_check,
                   dialog, checks, flagged_in, proc>>

---------------------------------------------------------------------------
(* Specifications *)

\* the fulfilment handlers, the start-up and service checks, and time
Next ==
    \/ AppStart
    \/ ServiceMain
    \/ \E p \in PaymentIds : mark_recurring_payment_paid(p, MaxHistory)
    \/ \E i \in IncomeIds : mark_recurring_income_received(i, MaxHistory)
    \/ \E o \in OneTimeIds : mark_one_time_payment_paid(o, MaxHistory)
    \/ detect_payments
    \/ commit_detected
    \/ decline_detected
    \/ undo_last_payment
    \/ Tick
    \/ AdvanceDate

Spec == Init /\ [][Next]_vars

\* the deferred-deletion flag, the checks that act on it, and time
NextLifecycle ==
    \/ AppStart
    \/ ServiceMain
    \/ \E p \in PaymentIds : mark_delete_next_month(p)
    \/ AdvanceDate

SpecLifecycle == Init /\ [][NextLifecycle]_vars

\* marking recurring payments again and again, to fill the undo log
NextLog ==
    \/ \E p \in PaymentIds : mark_recurring_payment_paid(p, MaxLogHistory)

SpecLog == Init /\ [][NextLog]_vars

\* the payment the pay-period specification edits and marks; the other one
\* keeps the period the store starts with
EditedIds == {2}

\* a store whose recurring payments carry a pay period: the edited payment any,
\* the other one the legacy -1 or the longest
InitPeriod ==
    /\ today = StartDate
    /\ clock = 0
    /\ recurring_payments \in
           { [p \in PaymentIds |->
                 [SeedPayments[p] EXCEPT !.pay_period_months = f[p]]] :
             f \in { g \in [PaymentIds -> PeriodValues] :
                       \A p \in PaymentIds \ EditedIds :
                           g[p] \in {-1, MaxPeriod} } }
    /\ recurring_income = SeedIncome
    /\ one_time_payments = SeedOneTime
    /\ payment_history = {}
    /\ recent_transactions = {}
    /\ next_history_id = 1
    /\ next_transaction_id = 1
    /\ monthly_summary = [k \in {} |-> NULL]
    /\ last_deletion_check = NoRow
    /\ dialog = NoDialog
    /\ ret = [op |-> "init", result |-> "none"]
    /\ checks = [year |-> 0, month |-> 0, runs |-> 0]
    /\ flagged_in = [p \in PaymentIds |-> NoCheck]
    /\ proc = NoProc

\* pay periods: the expiry checks, editing, marking and undoing, and time
NextPeriod ==
    \/ AppStart
    \/ ServiceMain
    \/ \E p \in EditedIds : \E m \in DialogPeriods : edit_recurring_payment(p, m)
    \/ \E p \in EditedIds : mark_recurring_payment_paid(p, MaxPeriodHistory)
    \/ undo_last_payment
    \/ AdvanceDate

SpecPeriod == InitPeriod /\ [][NextPeriod]_vars

\* detect-and-commit while the notification service runs its checks
NextService ==
    \/ ServiceMain
    \/ \E p \in PaymentIds : mark_delete_next_month(p)
    \/ detect_payments
    \/ commit_detected
    \/ decline_detected
    \/ AdvanceDate

SpecService == Init /\ [][NextService]_vars

\* detect-and-commit while a second process of the application works on the
\* same database
NextDetect ==
    \/ detect_payments
    \/ commit_detected
    \/ decline_detected
    \/ \E p \in PaymentIds : second_mark_recurring_payment_paid(p, MaxHistory)
    \/ \E o \in OneTimeIds : second_delete_one_time_payment(o)
    \/ AdvanceDate

SpecDetect == Init /\ [][NextDetect]_vars

\* calculate_payment_dates on every payment day, month and year, for a payment
\* never paid and for one paid on the start date
InitDates ==
    /\ today = StartDate
    /\ clock = 0
    /\ recurring_payments = SeedPayments
    /\ recurring_income = SeedIncome
    /\ one_time_payments = SeedOneTime
    /\ payment_history = {}
    /\ recent_transactions = {}
    /\ next_history_id = 1
    /\ next_transaction_id = 1
    /\ monthly_summary = [k \in {} |-> NULL]
    /\ last_deletion_check = NoRow
    /\ dialog = NoDialog
    /\ ret \in { [op |-> "calculate_payment_dates", payment_day |-> d,
                  last_paid_date |-> l, current_month |-> m, current_year |-> y,
                  result |-> NULL] :
                 d \in PaymentDays, l \in {NULL, StartDate}, m \in 1..12,
                 y \in DateYears }
    /\ checks = [year |-> 0, month |-> 0, runs |-> 0]
    /\ flagged_in = [p \in PaymentIds |-> NoCheck]
    /\ proc = NoProc

NextDates == call_calculate_payment_dates

SpecDates == InitDates /\ [][NextDates]_vars

\* the history tab: savings and refresh, each a step per commit, between
\* marks, undos and days
NextSavings ==
    \/ \E s \in SavingsValues : save_savings_insert(s)
    \/ save_savings_recompute
    \/ refresh_history_begin
    \/ refresh_history_set_savings
    \/ refresh_history_update
    \/ refresh_history_end
    \/ Idle /\ \E p \in PaymentIds : mark_recurring_payment_paid(p, MaxSavingsHistory)
    \/ Idle /\ \E i \in IncomeIds : mark_recurring_income_received(i, MaxSavingsHistory)
    \/ Idle /\ undo_last_payment
    \/ Idle /\ AdvanceDate

SpecSavings == Init /\ [][NextSavings]_vars

\* calculate_daily_totals for every month, over payments and income on the
\* first, the middle and the last days of a month, active and inactive, and a
\* one-time payment in the middle or on the last day of a month
InitTotals ==
    /\ today = StartDate
    /\ clock = 0
    /\ recurring_payments \in
           { [p \in PaymentIds |->
                 [SeedPayments[p] EXCEPT !.payment_day = d[p], !.is_active = a[p]]] :
             d \in [PaymentIds -> TotalsDays], a \in [PaymentIds -> {0, 1}] }
    /\ recurring_income \in
           { [i \in IncomeIds |-> [SeedIncome[i] EXCEPT !.income_day = d]] :
             d \in TotalsDays }
    /\ one_time_payments \in
           { [o \in OneTimeIds |-> [SeedOneTime[o] EXCEPT !.payment_date = d]] :
             d \in {MkDate(StartYear + 1, 1, 15), MkDate(StartYear + 1, 2, 29)} }
    /\ payment_history = {}
    /\ recent_transactions = {}
    /\ next_history_id = 1
    /\ next_transaction_id = 1
    /\ monthly_summary = [k \in {} |-> NULL]
    /\ last_deletion_check = NoRow
    /\ dialog = NoDialog
    /\ ret \in { [op |-> "calculate_daily_totals", month |-> m, year |-> y,
                  result |-> NULL] : m \in 1..12, y \in DateYears }
    /\ checks = [year |-> 0, month |-> 0, runs |-> 0]
    /\ flagged_in = [p \in PaymentIds |-> NoCheck]
    /\ proc = NoProc

NextTotals == call_calculate_daily_totals

SpecTotals == InitTotals /\ [][NextTotals]_vars

\* the deletion checks of the application and the service interleaved
NextConcurrent ==
    \/ app_check_read
    \/ app_check_write
    \/ svc_check_read
    \/ svc_check_write
    \/ \E p \in PaymentIds : app_mark_delete_next_month(p)
    \/ AdvanceDate

SpecConcurrent == Init /\ [][NextConcurrent]_vars

\* the recurring payment marked and deleted by hand in the integrity
\* specification; the other one is marked by detect-and-commit
HandledIds == {1}

\* the store at the first start of the application
InitIntegrity == Init /\ last_deletion_check = NoRow

\* marks, detect-and-commit and undo while obligations are deleted
NextIntegrity ==
    \/ \E p \in HandledIds : mark_recurring_payment_paid(p, MaxHistory)
    \/ \E i \in IncomeIds : mark_recurring_income_received(i, MaxHistory)
    \/ \E o \in OneTimeIds : mark_one_time_payment_paid(o, MaxHistory)
    \/ detect_payments
    \/ commit_detected
    \/ decline_detected
    \/ undo_last_payment
    \/ \E p \in HandledIds : delete_recurring_payment(p)
    \/ \E i \in IncomeIds : delete_recurring_income(i)
    \/ \E o \in OneTimeIds : delete_one_time_payment(o)
    \/ AdvanceDate

SpecIntegrity == InitIntegrity /\ [][NextIntegrity]_vars

\* the deletion flag and the checks, over a store with history and undo
\* entries
NextPass ==
    \/ AppStart
    \/ ServiceMain
    \/ \E p \in PaymentIds : mark_delete_next_month(p)
    \/ \E p \in HandledIds : mark_recurring_payment_paid(p, MaxPeriodHistory)
    \/ \E o \in OneTimeIds : mark_one_time_payment_paid(o, MaxPeriodHistory)
    \/ AdvanceDate

SpecPass == InitIntegrity /\ [][NextPass]_vars

---------------------------------------------------------------------------
(* Properties *)

\* "stores last 10 transactions"
UndoLogCapacity == 10

MarkOps == {"mark_recurring_payment_paid", "mark_recurring_income_received",
            "mark_one_time_payment_paid"}

CheckOps == {"app_start", "service_main"}

ThisMonth == <<today.year, today.month>>

\* the transaction pushed last: AUTOINCREMENT ids grow with every push
Newest(rt) == {t \in rt : \A u \in rt : u.id <= t.id}

\* the obligation transaction t was pushed for holds again the value t saved
RestoredBy(t) ==
    /\ t.payment_type = "recurring" =>
          recurring_payments'[t.payment_id].last_paid_date = t.old_last_paid_date
    /\ t.payment_type = "income" =>
          recurring_income'[t.payment_id].last_received_date = t.old_last_paid_date
    /\ t.payment_type = "one_time" => one_time_payments'[t.payment_id].paid = 0

\* C1: a successful mark followed, with no handler in between, by an undo puts
\* back the marked obligation's last_paid_date / last_received_date / paid flag,
\* removes exactly the history row the mark wrote and exactly its undo entry.
C1_RoundTrip ==
    [][ ( /\ ret.op \in MarkOps
          /\ ret.result = "Success"
          /\ \E t \in recent_transactions : undo_transaction(t) )
        => \A m \in Newest(recent_transactions) :
              /\ RestoredBy(m)
              /\ payment_history' = {h \in payment_history : h.id # m.history_id}
              /\ recent_transactions' = recent_transactions \ {m} ]_vars

\* C2: payment_history never holds two recurring rows of one payment for the
\* same month and year, nor two one-time rows of one payment for the same date.
C2_Uniqueness ==
    \A h1, h2 \in payment_history :
        ( /\ h1.payment_id = h2.payment_id
          /\ h1.payment_type = h2.payment_type
          /\ \/ /\ h1.payment_type = "recurring"
                /\ h1.month = h2.month /\ h1.year = h2.year
             \/ /\ h1.payment_type = "one_time"
                /\ h1.payment_date = h2.payment_date )
        => h1 = h2

HasRecord(ptype, id, month, year) ==
    \E h \in payment_history :
        /\ h.payment_type = ptype /\ h.payment_id = id
        /\ h.month = month /\ h.year = year

Fulfilment == <<recurring_payments, recurring_income, one_time_payments,
                payment_history, recent_transactions>>

\* C3: a mark of an obligation that already has a history row for the target
\* cycle (this month for a recurring payment or income, the due date for a
\* one-time payment) does not report success and leaves the obligations, the
\* history and the undo log as they were.
C3_AlreadyFulfilled ==
    [][ /\ \A p \in PaymentIds :
              ( /\ mark_recurring_payment_paid(p, MaxHistory)
                /\ HasRecord("recurring", p, today.month, today.year) )
              => (ret'.result # "Success" /\ UNCHANGED Fulfilment)
        /\ \A i \in IncomeIds :
              ( /\ mark_recurring_income_received(i, MaxHistory)
                /\ HasRecord("income", i, today.month, today.year) )
              => (ret'.result # "Success" /\ UNCHANGED Fulfilment)
        /\ \A o \in OneTimeIds :
              ( /\ mark_one_time_payment_paid(o, MaxHistory)
                /\ \E h \in payment_history :
                      /\ h.payment_type = "one_time" /\ h.payment_id = o
                      /\ h.payment_date = one_time_payments[o].payment_date )
              => (ret'.result # "Success" /\ UNCHANGED Fulfilment) ]_vars

\* C4: the undo log never holds more than 10 entries.
C4_UndoLogBounded == Cardinality(recent_transactions) <= UndoLogCapacity

\* C5: an entry that leaves the undo log is the one pushed last.
C5_LastInFirstOut ==
    [][ \A t \in recent_transactions \ recent_transactions' :
            t \in Newest(recent_transactions) ]_vars

\* C6: undo with an empty undo log reports "No Transaction" and changes no
\* table: obligations, history, monthly summaries, the deletion checkpoint.
C6_NothingToUndo ==
    [][ (undo_last_payment /\ recent_transactions = {})
        => /\ ret'.result = "No Transaction"
           /\ UNCHANGED store ]_vars

\* undo was asked for with nothing to undo, in a store that has summaries and
\* a checkpoint to lose
C6_Witness ==
    /\ ret = [op |-> "undo_last_payment", result |-> "No Transaction"]
    /\ recent_transactions = {}
    /\ DOMAIN monthly_summary # {}
    /\ last_deletion_check.numeric
    /\ today.month # StartMonth

LifecycleCheck == AppStart \/ ServiceMain

\* C7: a deletion check run in a month in which a check has already run
\* deletes no payment, whatever is flagged by then.
C7_OncePerMonth ==
    [][ (LifecycleCheck /\ checks.year = today.year /\ checks.month = today.month)
        => DOMAIN recurring_payments' = DOMAIN recurring_payments ]_vars

\* a second check of the month has just run over a flagged payment
C7_Witness ==
    /\ ret.op \in CheckOps
    /\ checks = [year |-> today.year, month |-> today.month, runs |-> 2]
    /\ \E p \in DOMAIN recurring_payments :
          /\ recurring_payments[p].delete_next_month = 1
          /\ flagged_in[p] = ThisMonth

\* C8: with no checkpoint row, or one that does not parse, the check writes
\* the current month as the checkpoint and deletes no payment.
C8_FirstRun ==
    [][ (LifecycleCheck /\ ~(last_deletion_check.present /\ last_deletion_check.numeric))
        => /\ last_deletion_check' = FormatCheck(today.year, today.month)
           /\ DOMAIN recurring_payments' = DOMAIN recurring_payments ]_vars

\* the first check ever has just run over a flagged payment
C8_Witness ==
    /\ ret.op \in CheckOps
    /\ today = StartDate
    /\ checks.runs = 1
    /\ last_deletion_check = FormatCheck(StartYear, StartMonth)
    /\ \E p \in DOMAIN recurring_payments : recurring_payments[p].delete_next_month = 1

Earlier(setting, td) ==
    /\ setting.present /\ setting.numeric
    /\ \/ setting.year < td.year
       \/ setting.year = td.year /\ setting.month < td.month

\* C9: a check run in a month later than the checkpoint deletes every payment
\* flagged delete_next_month, keeps every other one, and leaves the checkpoint
\* at the current month, all in the one step.
C9_NewMonth ==
    [][ (LifecycleCheck /\ Earlier(last_deletion_check, today))
        => /\ DOMAIN recurring_payments' =
                 {p \in DOMAIN recurring_payments :
                     recurring_payments[p].delete_next_month # 1}
           /\ last_deletion_check' = FormatCheck(today.year, today.month) ]_vars

\* a check has just deleted flagged payments and moved the checkpoint
C9_Witness ==
    /\ ret.op \in CheckOps
    /\ ret.result = "Payments Deleted"
    /\ DOMAIN recurring_payments = {}
    /\ last_deletion_check = FormatCheck(today.year, today.month)
    /\ checks.runs = 1

\* C10: a payment that leaves the table was not flagged in the current month.
C10_NotInFlaggingMonth ==
    [][ \A p \in DOMAIN recurring_payments :
            p \notin DOMAIN recurring_payments' => flagged_in[p] # ThisMonth ]_vars

\* the pay period of row r has run out at date td, the day of the month ignored
PeriodOver(r, td) ==
    /\ r.pay_period_months # NullPeriod
    /\ r.pay_period_months # -1
    /\ (td.year - r.period_start_date.year) * 12
         + (td.month - r.period_start_date.month) >= r.pay_period_months

\* C11: a lifecycle check leaves inactive exactly the payments that were
\* inactive already and the active ones with a finite pay period for which
\* (today.year - start.year) * 12 + (today.month - start.month) is at least
\* the period; a payment with a NULL or -1 period is never switched off.
C11_Expiration ==
    [][ LifecycleCheck
        => \A p \in DOMAIN recurring_payments' :
              (recurring_payments'[p].is_active = 0)
              <=> \/ recurring_payments[p].is_active = 0
                  \/ PeriodOver(recurring_payments[p], today) ]_vars

\* a check has just switched off a payment in the month its period ran out,
\* and left on one whose period has a month to go and one with no period
C11_Witness ==
    /\ ret.op \in CheckOps
    /\ \E p, q \in DOMAIN recurring_payments :
          /\ recurring_payments[p].is_active = 0
          /\ recurring_payments[p].pay_period_months >= 1
          /\ (today.year - recurring_payments[p].period_start_date.year) * 12
               + (today.month - recurring_payments[p].period_start_date.month)
             = recurring_payments[p].pay_period_months
          /\ recurring_payments[q].is_active = 1
          /\ recurring_payments[q].pay_period_months >= 1
          /\ (today.year - recurring_payments[q].period_start_date.year) * 12
               + (today.month - recurring_payments[q].period_start_date.month)
             = recurring_payments[q].pay_period_months - 1

\* C12: no step switches an inactive payment on again.
C12_Irreversible ==
    [][ \A p \in (DOMAIN recurring_payments) \cap (DOMAIN recurring_payments') :
            recurring_payments[p].is_active = 0
            => recurring_payments'[p].is_active = 0 ]_vars

\* an expired payment has been given an infinite pay period by an edit, has
\* been marked paid, and is inactive still
C12_Witness ==
    \E p \in DOMAIN recurring_payments :
        /\ recurring_payments[p].is_active = 0
        /\ recurring_payments[p].pay_period_months = NullPeriod
        /\ recurring_payments[p].last_paid_date = today
        /\ \E h \in payment_history : h.payment_id = p

\* the months the views are asked for
ViewMonths == {MonthAt(k) : k \in 0..(NumMonths - 1)}

\* C13: an inactive recurring payment takes no part in overdue detection, in
\* the daily totals, in the scheduled total and the upcoming list of the
\* summary tab, nor in the scheduled total and the upcoming payments of the
\* notification service: each is what it would be without the payment.
C13_InactiveExcluded ==
    \A p \in DOMAIN recurring_payments :
        recurring_payments[p].is_active = 0
        => LET without == Remove(recurring_payments, {p})
           IN  /\ p \notin detected_recurring(recurring_payments, payment_history, today)
               /\ \A k \in ViewMonths :
                     calculate_daily_totals(recurring_payments, one_time_payments,
                                            recurring_income, k[2], k[1])
                     = calculate_daily_totals(without, one_time_payments,
                                              recurring_income, k[2], k[1])
               /\ load_summary_total_recurring(recurring_payments)
                  = load_summary_total_recurring(without)
               /\ load_summary_upcoming(recurring_payments, payment_history, today)
                  = load_summary_upcoming(without, payment_history, today)
               /\ svc_total_scheduled(recurring_payments, one_time_payments, today)
                  = svc_total_scheduled(without, one_time_payments, today)
               /\ svc_check_upcoming_payments(recurring_payments, payment_history, today)
                  = svc_check_upcoming_payments(without, payment_history, today)

\* the cycle date of a payment day in today's month: the day itself, or the
\* last day of the month when the month is shorter
CycleDate(payment_day) ==
    MkDate(today.year, today.month,
           IF payment_day <= DaysInMonth(today.year, today.month)
           THEN payment_day ELSE DaysInMonth(today.year, today.month))

\* C14: every entry of a detected list is, at the detection, an active recurring
\* payment whose cycle date in the current month has come and that has no
\* recurring history row for the current month and year, or an unpaid one-time
\* payment whose due date has come and that has no one-time history row for
\* that date.
C14_DetectUnfulfilled ==
    [][ detect_payments
        => \A k \in 1..Len(dialog'.detected) :
              LET it == dialog'.detected[k]
              IN  /\ it.ptype = "recurring" =>
                        /\ it.payment_id \in DOMAIN recurring_payments
                        /\ recurring_payments[it.payment_id].is_active = 1
                        /\ DateLE(CycleDate(recurring_payments[it.payment_id].payment_day),
                                  today)
                        /\ ~HasRecord("recurring", it.payment_id, today.month, today.year)
                  /\ it.ptype = "one_time" =>
                        /\ it.payment_id \in DOMAIN one_time_payments
                        /\ one_time_payments[it.payment_id].paid = 0
                        /\ DateLE(one_time_payments[it.payment_id].payment_date, today)
                        /\ ~ \E h \in payment_history :
                                /\ h.payment_type = "one_time"
                                /\ h.payment_id = it.payment_id
                                /\ h.payment_date =
                                       one_time_payments[it.payment_id].payment_date ]_vars

\* the question is open on a list that leaves out a due recurring payment
\* because it has a history row for this month
C14_Witness ==
    /\ dialog.open
    /\ dialog.today = today
    /\ Len(dialog.detected) >= 1
    /\ \E p \in DOMAIN recurring_payments :
          /\ recurring_payments[p].is_active = 1
          /\ DateLE(CycleDate(recurring_payments[p].payment_day), today)
          /\ HasRecord("recurring", p, today.month, today.year)
          /\ \A k \in 1..Len(dialog.detected) :
                ~(dialog.detected[k].ptype = "recurring"
                  /\ dialog.detected[k].payment_id = p)

\* the history rows and undo entries a step writes, and the rows it removes
NewRecords == payment_history' \ payment_history
NewEntries == recent_transactions' \ recent_transactions
RemovedRecords == payment_history \ payment_history'

\* the step has marked the detected item it fulfilled: the obligation updated,
\* a history row and an undo entry for it written
Committed(it) ==
    /\ \E h \in NewRecords :
          /\ h.payment_type = it.ptype /\ h.payment_id = it.payment_id
          /\ \E t \in NewEntries : t.history_id = h.id
    /\ it.ptype = "recurring" =>
          /\ it.payment_id \in DOMAIN recurring_payments'
          /\ recurring_payments'[it.payment_id].last_paid_date = dialog.today
    /\ it.ptype = "one_time" =>
          /\ it.payment_id \in DOMAIN one_time_payments'
          /\ one_time_payments'[it.payment_id].paid = 1

\* C15: answering Yes either marks every payment of the detected list, or
\* leaves the obligations, the history and the undo log as they were.
C15_CommitAtomic ==
    [][ commit_detected
        => \/ \A k \in 1..Len(dialog.detected) : Committed(dialog.detected[k])
           \/ UNCHANGED Fulfilment ]_vars

\* two history rows stand for the same cycle of the same obligation
SameCycle(g, h) ==
    /\ g.payment_type = h.payment_type
    /\ g.payment_id = h.payment_id
    /\ \/ g.payment_type = "recurring" /\ g.month = h.month /\ g.year = h.year
       \/ g.payment_type = "one_time" /\ g.payment_date = h.payment_date

\* C16: answering Yes writes no history row for a cycle that has one already.
C16_NoDoubleRecord ==
    [][ commit_detected
        => \A h \in NewRecords : ~ \E g \in payment_history : SameCycle(g, h) ]_vars

\* C17: in every step a history row is written together with the update of
\* its obligation, and an obligation is updated only together with a history
\* row written or removed for it.
C17_AllOrNothing ==
    [][ /\ \A h \in NewRecords :
              /\ h.payment_type = "recurring" =>
                    /\ h.payment_id \in DOMAIN recurring_payments'
                    /\ recurring_payments'[h.payment_id].last_paid_date # NULL
              /\ h.payment_type = "one_time" =>
                    /\ h.payment_id \in DOMAIN one_time_payments'
                    /\ one_time_payments'[h.payment_id].paid = 1
              /\ h.payment_type = "income" =>
                    /\ h.payment_id \in DOMAIN recurring_income'
                    /\ recurring_income'[h.payment_id].last_received_date # NULL
        /\ \A p \in (DOMAIN recurring_payments) \cap (DOMAIN recurring_payments') :
              recurring_payments'[p].last_paid_date # recurring_payments[p].last_paid_date
              => \E h \in NewRecords \cup RemovedRecords :
                    h.payment_type = "recurring" /\ h.payment_id = p
        /\ \A o \in (DOMAIN one_time_payments) \cap (DOMAIN one_time_payments') :
              one_time_payments'[o].paid # one_time_payments[o].paid
              => \E h \in NewRecords \cup RemovedRecords :
                    h.payment_type = "one_time" /\ h.payment_id = o ]_vars

\* calculate_payment_dates has been called and ret holds what it returned
Returned == ret.op = "calculate_payment_dates" /\ ret.result # NULL

\* C18: the current date returned for a payment day from 1 to 31 lies in the
\* month and year asked for; its day is the payment day when the month has
\* that day and the last day of the month otherwise: day 31 in February gives
\* the 29th in 2024 and the 28th in 2023.
C18_CurrentInMonth ==
    Returned
    => /\ ret.result.current.year = ret.current_year
       /\ ret.result.current.month = ret.current_month
       /\ ret.result.current.day =
             IF ret.payment_day <= DaysInMonth(ret.current_year, ret.current_month)
             THEN ret.payment_day
             ELSE DaysInMonth(ret.current_year, ret.current_month)
       /\ (ret.payment_day = 31 /\ ret.current_month = 2 /\ ret.current_year = 2024)
             => ret.result.current.day = 29
       /\ (ret.payment_day = 31 /\ ret.current_month = 2 /\ ret.current_year = 2023)
             => ret.result.current.day = 28

\* the call for day 31 in February 2024 has returned the 29th of February
C18_Witness ==
    /\ Returned
    /\ ret.payment_day = 31 /\ ret.current_month = 2 /\ ret.current_year = 2024
    /\ ret.result.current = MkDate(2024, 2, 29)

\* C19: the next date returned for month M is the current date the function
\* returns for the month after M with the same payment day, January of the
\* next year when M is December.
C19_NextIsCurrentOfNext ==
    Returned
    => ret.result.next =
          calculate_payment_dates(
              ret.payment_day, ret.last_paid_date,
              IF ret.current_month = 12 THEN 1 ELSE ret.current_month + 1,
              IF ret.current_month = 12 THEN ret.current_year + 1
              ELSE ret.current_year).current

\* the call for day 31 in December has returned the 31st of January of the
\* next year, and the one for day 31 in January the last day of February
C19_Witness ==
    /\ Returned
    /\ ret.payment_day = 31
    /\ \/ /\ ret.current_month = 12
          /\ ret.result.next = MkDate(ret.current_year + 1, 1, 31)
       \/ /\ ret.current_month = 1
          /\ ret.result.next.month = 2
          /\ ret.result.next.day < 30

\* a handler that has committed and ends with update_monthly_summary and
\* load_history
Recomputing ==
    /\ \/ \E p \in PaymentIds : mark_recurring_payment_paid(p, MaxHistory)
       \/ \E i \in IncomeIds : mark_recurring_income_received(i, MaxHistory)
       \/ \E o \in OneTimeIds : mark_one_time_payment_paid(o, MaxHistory)
       \/ \E t \in recent_transactions : undo_transaction(t)
       \/ commit_detected
    /\ ret'.result = "Success"

\* the months such a step recomputes: those of the history rows it wrote or
\* removed, and the current one, as <<month, year>>
Recomputed ==
    {<<h.month, h.year>> : h \in NewRecords \cup RemovedRecords}
    \cup {<<today.month, today.year>>}

PastMonth(k) ==
    k[2] < today.year \/ (k[2] = today.year /\ k[1] < today.month)

\* C20: after a recomputation the row of the current month holds the sum of
\* the amounts of all recurring income as total_income, the row of a past
\* month the sum of the income history rows of that month, and both hold the
\* sum of the recurring and one-time history rows of the month as
\* total_payments.
C20_RecomputeMonth ==
    [][ Recomputing
        => \A k \in Recomputed :
              (k = <<today.month, today.year>> \/ PastMonth(k))
              => /\ k \in DOMAIN monthly_summary'
                 /\ monthly_summary'[k].total_payments =
                       SumAmounts({h \in payment_history' :
                                      /\ h.month = k[1] /\ h.year = k[2]
                                      /\ h.payment_type # "income"})
                 /\ monthly_summary'[k].total_income =
                       IF PastMonth(k)
                       THEN SumAmounts({h \in payment_history' :
                                           /\ h.month = k[1] /\ h.year = k[2]
                                           /\ h.payment_type = "income"})
                       ELSE SumAmounts({ [id |-> i,
                                          amount |-> recurring_income'[i].amount] :
                                         i \in DOMAIN recurring_income' }) ]_vars

\* an undo in a later month has recomputed a past month: its row shows the
\* payments still recorded for it and no income, none having been received,
\* and the row of the current month shows the scheduled income
C20_Witness ==
    /\ ret.op = "undo_last_payment"
    /\ ret.result = "Success"
    /\ <<today.month, today.year>> \in DOMAIN monthly_summary
    /\ monthly_summary[<<today.month, today.year>>].total_income = 100
    /\ \E k \in DOMAIN monthly_summary :
          /\ PastMonth(k)
          /\ monthly_summary[k].total_income = 0
          /\ monthly_summary[k].total_payments > 0
          /\ \E h \in payment_history : h.month = k[1] /\ h.year = k[2]

\* a step keeps the savings of every summary row, and a row it creates has none
SavingsKept ==
    /\ \A k \in DOMAIN monthly_summary :
          /\ k \in DOMAIN monthly_summary'
          /\ monthly_summary'[k].savings_amount = monthly_summary[k].savings_amount
    /\ \A k \in (DOMAIN monthly_summary') \ (DOMAIN monthly_summary) :
          monthly_summary'[k].savings_amount = 0

\* C21: only the INSERT OR REPLACE of save_current_month_savings changes the
\* savings_amount of a summary row; every recomputation, those of the marks,
\* of undo and of each step of refresh_history included, keeps it, and writes
\* 0 into a row it creates.
C21_SavingsUserOwned ==
    [][ (\E s \in SavingsValues : save_savings_insert(s)) \/ SavingsKept ]_vars

\* refresh_history has gone over a closed month with a payment on record and
\* savings set aside, and over the current month, which had no row
C21_Witness ==
    /\ ret.op = "refresh_history"
    /\ ret.result = "History Refreshed"
    /\ \E k \in DOMAIN monthly_summary :
          /\ PastMonth(k)
          /\ monthly_summary[k].savings_amount = 7
          /\ monthly_summary[k].total_payments > 0
    /\ <<today.month, today.year>> \in DOMAIN monthly_summary
    /\ monthly_summary[<<today.month, today.year>>].savings_amount = 0

\* C22: in every committed state each summary row has net_savings =
\* total_income - total_payments - savings_amount; the table has one row for
\* a month and year by its UNIQUE(month, year).
C22_SummaryConsistent ==
    \A k \in DOMAIN monthly_summary :
        monthly_summary[k].net_savings =
            monthly_summary[k].total_income - monthly_summary[k].total_payments
              - monthly_summary[k].savings_amount

\* calculate_daily_totals has been called and ret holds what it returned
TotalsReturned == ret.op = "calculate_daily_totals" /\ ret.result # NULL

\* the day of month m of year y a payment or income day falls on
ClampedDay(y, m, d) == IF d <= DaysInMonth(y, m) THEN d ELSE DaysInMonth(y, m)

\* what goes out on day d of the month asked for: the active recurring
\* payments whose clamped day is d and the one-time payments due that date
OutgoingOn(d) ==
    SumAmounts({ [kind |-> "recurring", id |-> p,
                  amount |-> recurring_payments[p].amount] :
                 p \in {q \in DOMAIN recurring_payments :
                          /\ recurring_payments[q].is_active = 1
                          /\ ClampedDay(ret.year, ret.month,
                                        recurring_payments[q].payment_day) = d} })
    + SumAmounts({ [kind |-> "one_time", id |-> o,
                    amount |-> one_time_payments[o].amount] :
                   o \in {q \in DOMAIN one_time_payments :
                            one_time_payments[q].payment_date
                              = MkDate(ret.year, ret.month, d)} })

\* what comes in on day d: the recurring income whose clamped day is d
IncomingOn(d) ==
    SumAmounts({ [kind |-> "income", id |-> i, amount |-> recurring_income[i].amount] :
                 i \in {q \in DOMAIN recurring_income :
                          ClampedDay(ret.year, ret.month,
                                     recurring_income[q].income_day) = d} })

\* the sum of field f of the entries of days 1 to d
RECURSIVE SumThrough(_, _, _)
SumThrough(totals, f, d) ==
    IF d = 0 THEN 0 ELSE totals[d][f] + SumThrough(totals, f, d - 1)

\* C23: calculate_daily_totals returns an entry for each day 1..last day of
\* the month, and no other; outgoing and incoming are the amounts that fall on
\* the day; running_outgoing and running_incoming are the sums of the per-day
\* figures from day 1 through the day, and running_net is their difference.
C23_DailyTotals ==
    TotalsReturned
    => /\ DOMAIN ret.result = 1..DaysInMonth(ret.year, ret.month)
       /\ \A d \in DOMAIN ret.result :
             /\ ret.result[d].outgoing = OutgoingOn(d)
             /\ ret.result[d].incoming = IncomingOn(d)
             /\ ret.result[d].running_outgoing = SumThrough(ret.result, "outgoing", d)
             /\ ret.result[d].running_incoming = SumThrough(ret.result, "incoming", d)
             /\ ret.result[d].running_net =
                   ret.result[d].running_incoming - ret.result[d].running_outgoing

\* the totals of February 2024 have been returned: a payment of day 31 and the
\* one-time payment fall on the 29th with an income of day 30, an inactive
\* payment is left out, and the running totals have grown by that day
C23_Witness ==
    /\ TotalsReturned
    /\ ret.month = 2 /\ ret.year = StartYear + 1
    /\ recurring_payments[1].is_active = 0
    /\ recurring_payments[2].is_active = 1
    /\ recurring_payments[2].payment_day = 31
    /\ recurring_income[1].income_day = 30
    /\ one_time_payments[1].payment_date = MkDate(StartYear + 1, 2, 29)
    /\ ret.result[29].outgoing = 25
    /\ ret.result[29].incoming = 100
    /\ ret.result[28].running_outgoing = 0
    /\ ret.result[29].running_net = 75

\* C24: when the application and the service interleave the statements of
\* their deletion checks, no payment is deleted in a month in which a check
\* has already completed: a payment flagged after one process's pass is not
\* deleted by the other's pass in the same month.
C24_OncePerMonthInterleaved ==
    [][ \A p \in DOMAIN recurring_payments :
            p \notin DOMAIN recurring_payments'
            => ~(checks.year = today.year /\ checks.month = today.month) ]_vars

\* C25: whenever marks, detect-and-commit batches and as many undos have
\* emptied the undo log again, the history is empty and every obligation has
\* the last_paid_date, last_received_date or paid flag it started with.
C25_MultiStepRoundTrip ==
    recent_transactions = {}
    => /\ payment_history = {}
       /\ \A p \in DOMAIN recurring_payments :
             recurring_payments[p].last_paid_date = SeedPayments[p].last_paid_date
       /\ \A i \in DOMAIN recurring_income :
             recurring_income[i].last_received_date = SeedIncome[i].last_received_date
       /\ \A o \in DOMAIN one_time_payments :
             one_time_payments[o].paid = SeedOneTime[o].paid

\* C26: for a payment never paid, the notification service's
\* calculate_payment_dates returns the dates the application's returns: the
\* same previous-month, this-month and next-month date for every payment day
\* from 1 to 31, every month and every year.
C26_ServiceAgrees ==
    (Returned /\ ret.last_paid_date = NULL)
    => svc_calculate_payment_dates(ret.payment_day, ret.last_paid_date,
                                   ret.current_month, ret.current_year)
       = ret.result

\* C27: every undo entry refers to a history row that exists, and no history
\* row is referred to by two undo entries, whatever obligations have been
\* deleted.
C27_UndoLogIntegrity ==
    /\ \A t \in recent_transactions :
          \E h \in payment_history : h.id = t.history_id
    /\ \A t, u \in recent_transactions :
          t.history_id = u.history_id => t = u

\* an undo entry and its history row are left for an obligation that has been
\* deleted, after an undo has taken another entry with its row
C27_Witness ==
    /\ Cardinality(recent_transactions) = 1
    /\ Cardinality(payment_history) = 1
    /\ next_history_id = 3
    /\ ret.op = "undo_last_payment" /\ ret.result = "Success"
    /\ \A t \in recent_transactions :
          \/ t.payment_type = "recurring" /\ t.payment_id \notin DOMAIN recurring_payments
          \/ t.payment_type = "one_time" /\ t.payment_id \notin DOMAIN one_time_payments
          \/ t.payment_type = "income" /\ t.payment_id \notin DOMAIN recurring_income

\* C28: a one-time payment that exists is flagged paid exactly when the
\* history holds a one-time row with its id.
C28_PaidIffRecord ==
    \A o \in DOMAIN one_time_payments :
        one_time_payments[o].paid = 1
        <=> \E h \in payment_history :
               h.payment_type = "one_time" /\ h.payment_id = o

\* the one-time payment has been marked by detect-and-commit, after another
\* obligation: the payment is paid and the history holds its row
C28_Witness ==
    /\ ret.op = "commit_detected" /\ ret.result = "Success"
    /\ next_history_id = 3
    /\ \E o \in DOMAIN one_time_payments :
          /\ one_time_payments[o].paid = 1
          /\ \E h \in payment_history :
                h.payment_type = "one_time" /\ h.payment_id = o /\ h.id = 2
          /\ \E h \in payment_history : h.payment_type # "one_time" /\ h.id = 1

\* C29: the summary row of a month earlier than the current one holds, as
\* total_income, the sum of the income history rows of that month.
C29_ClosedMonthsRealized ==
    \A k \in DOMAIN monthly_summary :
        PastMonth(k)
        => monthly_summary[k].total_income =
              SumAmounts({h \in payment_history :
                             /\ h.payment_type = "income"
                             /\ h.month = k[1] /\ h.year = k[2]})

\* C30: a lifecycle check deletes only payments whose delete_next_month flag
\* is set when it runs; the payments it keeps are as they were, but for the
\* is_active the expiry check of the same run may clear; one-time payments,
\* recurring income, history rows and undo entries are as they were.
C30_DeletionFrame ==
    [][ LifecycleCheck
        => /\ \A p \in (DOMAIN recurring_payments) \ (DOMAIN recurring_payments') :
                 recurring_payments[p].delete_next_month = 1
           /\ DOMAIN recurring_payments' \subseteq DOMAIN recurring_payments
           /\ \A p \in DOMAIN recurring_payments' :
                 [recurring_payments'[p] EXCEPT !.is_active = 1]
                 = [recurring_payments[p] EXCEPT !.is_active = 1]
           /\ UNCHANGED <<one_time_payments, recurring_income, payment_history,
                          recent_transactions>> ]_vars

\* a check has just deleted the flagged payment and kept the one not flagged,
\* a paid one-time payment, a history row and an undo entry
C30_Witness ==
    /\ ret.op \in CheckOps
    /\ ret.result = "Payments Deleted"
    /\ Cardinality(DOMAIN recurring_payments) = 1
    /\ \A p \in DOMAIN recurring_payments :
          recurring_payments[p].delete_next_month = 0
    /\ payment_history # {}
    /\ recent_transactions # {}

====
